---- MODULE Spec2Model ----
(***************************************************************************)
(* A model of the MIME detector tree of src/mime.go: the MIME node, the    *)
(* first-match descent of match, charset augmentation, clone and           *)
(* cloneHierarchy, Is, and the copy-on-write Extend.                       *)
(*                                                                         *)
(* Go strings are sequences of one-character strings, so that parsing,     *)
(* trimming and lower-casing are computed and not assumed.  Go maps,       *)
(* slices' backing arrays and *MIME values are objects in heaps, so that   *)
(* sharing between a clone and the canonical tree is visible.              *)
(***************************************************************************)
EXTENDS Integers, Sequences, FiniteSets, TLC

(***************************************************************************)
(* Strings                                                                 *)
(***************************************************************************)
S_empty == << >>
S_text  == <<"t","e","x","t","/","p","l","a","i","n">>
S_html  == <<"t","e","x","t","/","h","t","m","l">>
S_xml   == <<"t","e","x","t","/","x","m","l">>
S_octet == <<"a","p","p","/","o","c","t">>
S_charset == <<"c","h","a","r","s","e","t">>

\* types.TEXT, types.HTML, types.XML: the three families with a charset function
TEXT == S_text
HTML == S_html
XML  == S_xml

UpperChars == <<"A","C","E","H","L","M","P","T","U","X">>
LowerChars == <<"a","c","e","h","l","m","p","t","u","x">>

\* strings.ToLower on one character
LowerChar(c) ==
  IF \E i \in 1..Len(UpperChars) : UpperChars[i] = c
  THEN LowerChars[CHOOSE i \in 1..Len(UpperChars) : UpperChars[i] = c]
  ELSE c

ToLower(s) == [i \in 1..Len(s) |-> LowerChar(s[i])]

IsSpace(c) == c = " "

\* mime.isTokenChar over the characters used here: the tspecials ; = / and
\* the space are no token characters
IsTokenChar(c) == c \notin {" ", ";", "=", "/", ","}

RECURSIVE TrimLeft(_)
TrimLeft(s) ==
  IF s # << >> /\ IsSpace(Head(s)) THEN TrimLeft(Tail(s)) ELSE s

RECURSIVE TrimRight(_)
TrimRight(s) ==
  IF s # << >> /\ IsSpace(s[Len(s)]) THEN TrimRight(SubSeq(s, 1, Len(s) - 1)) ELSE s

TrimSpace(s) == TrimRight(TrimLeft(s))

HasPrefix(s, c) == s # << >> /\ Head(s) = c

\* index of the first ";" of s, or 0
SemiIndex(s) ==
  IF \E i \in 1..Len(s) : s[i] = ";"
  THEN CHOOSE i \in 1..Len(s) : s[i] = ";" /\ \A j \in 1..(i - 1) : s[j] # ";"
  ELSE 0

\* base, _, _ := strings.Cut(v, ";")
CutBase(s) == IF SemiIndex(s) = 0 THEN s ELSE SubSeq(s, 1, SemiIndex(s) - 1)

\* length of the longest prefix of token characters
RECURSIVE TokenLen(_)
TokenLen(s) ==
  IF s # << >> /\ IsTokenChar(Head(s)) THEN 1 + TokenLen(Tail(s)) ELSE 0

\* mime.consumeToken: <<token, rest>>
consumeToken(s) ==
  <<SubSeq(s, 1, TokenLen(s)), SubSeq(s, TokenLen(s) + 1, Len(s))>>

\* mime.checkMediaTypeDisposition: TRUE when it returns no error
checkMediaTypeDisposition(s) ==
  LET t1 == consumeToken(s)
      t2 == consumeToken(Tail(t1[2]))
  IN  IF t1[1] = << >> THEN FALSE
      ELSE IF t1[2] = << >> THEN TRUE
      ELSE IF ~HasPrefix(t1[2], "/") THEN FALSE
      ELSE IF t2[1] = << >> THEN FALSE
      ELSE t2[2] = << >>

\* mime.consumeMediaParam: <<param, value, rest>>; param = "" when v does not
\* start with a parameter, and rest is then v itself
consumeMediaParam(v) ==
  LET r0 == TrimLeft(v)
      r1 == TrimLeft(Tail(r0))
      tk == consumeToken(r1)
      r2 == TrimLeft(tk[2])
      r3 == TrimLeft(Tail(r2))
      tv == consumeToken(r3)
  IN  IF ~HasPrefix(r0, ";") THEN << << >>, << >>, v >>
      ELSE IF tk[1] = << >> THEN << << >>, << >>, v >>
      ELSE IF ~HasPrefix(r2, "=") THEN << << >>, << >>, v >>
      ELSE IF tv[1] = << >> /\ tv[2] = r3 THEN << << >>, << >>, v >>
      ELSE <<ToLower(tk[1]), tv[1], tv[2]>>

\* a Go map value: a function from keys to values
EmptyMap == << >>
MapPut(m, k, v) == [x \in (DOMAIN m) \cup {k} |-> IF x = k THEN v ELSE m[x]]

\* the three results of mime.ParseMediaType; nilParams says that the params
\* returned are the nil map
ParseOk(mediatype, pmap) ==
  [mediatype |-> mediatype, params |-> pmap, nilParams |-> FALSE, err |-> FALSE]
ParseErr(mediatype) ==
  [mediatype |-> mediatype, params |-> EmptyMap, nilParams |-> TRUE, err |-> TRUE]

\* the parameter loop of mime.ParseMediaType
RECURSIVE ParseParams(_, _, _)
ParseParams(mediatype, v, pmap) ==
  LET w == TrimLeft(v)
      p == consumeMediaParam(w)
  IN  IF w = << >> THEN ParseOk(mediatype, pmap)
      ELSE IF p[1] = << >>
        THEN IF TrimSpace(p[3]) = <<";">>
             THEN ParseOk(mediatype, pmap)
             ELSE ParseErr(mediatype)
      ELSE IF p[1] \in DOMAIN pmap
        THEN ParseErr(<< >>)
      ELSE ParseParams(mediatype, p[3], MapPut(pmap, p[1], p[2]))

\* mime.ParseMediaType(v): the media type lower-cased and trimmed, its
\* parameters, and whether an error is returned
ParseMediaType(v) ==
  LET base == CutBase(v)
      mediatype == TrimSpace(ToLower(base))
  IN  IF ~checkMediaTypeDisposition(mediatype)
      THEN ParseErr(<< >>)
      ELSE ParseParams(mediatype, SubSeq(v, Len(base) + 1, Len(v)), EmptyMap)

(***************************************************************************)
(* Objects.  A store S holds the heaps: S.heap the MIME objects (a *MIME   *)
(* is an index, 0 is nil), S.maps the map objects, S.arrays the backing    *)
(* arrays of alias slices, S.lists the backing arrays of children slices.  *)
(* A slice is a header [arr, len] on a backing array; arr = 0 is nil.      *)
(***************************************************************************)
NilSlice == [arr |-> 0, len |-> 0]

\* a magic.Detector value: nil, or a signature test
NilDetector == [isNil |-> TRUE, sig |-> << >>]
Sig(sig) == [isNil |-> FALSE, sig |-> sig]

\* the detector contract (bytes, limit) -> bool: the signature is a prefix of
\* the input, looking at no more than limit bytes (0: no limit)
Accepts(d, in, limit) ==
  LET w == IF limit > 0 /\ Len(in) > limit THEN SubSeq(in, 1, limit) ELSE in
  IN  Len(w) >= Len(d.sig) /\ SubSeq(w, 1, Len(d.sig)) = d.sig

Has(in, b) == \E i \in 1..Len(in) : in[i] = b

\* charset.FromPlain, charset.FromHTML, charset.FromXML: (bytes) -> string,
\* "" when nothing is detected
FromPlain(in) == IF Has(in, 8) THEN <<"u","8">> ELSE << >>
FromHTML(in)  == IF Has(in, 8) THEN <<"i","s","o">> ELSE << >>
FromXML(in)   == IF Has(in, 8) THEN <<"u","1","6">> ELSE << >>

SliceElems(backing, s) ==
  IF s.arr = 0 THEN << >> ELSE SubSeq(backing[s.arr], 1, s.len)

\* m.children, m.aliases and m.params as values
Children(S, m) == SliceElems(S.lists, S.heap[m].children)
AliasesOf(S, m) == SliceElems(S.arrays, S.heap[m].aliases)
ParamsOf(S, m) ==
  IF S.heap[m].params = 0 THEN EmptyMap ELSE S.maps[S.heap[m].params]

\* m.Parent()
Parent(S, m) == S.heap[m].parent

\* the struct MIME
MIME(typ, aliases, params, extension, detector, children, parent) ==
  [typ |-> typ, aliases |-> aliases, params |-> params,
   extension |-> extension, detector |-> detector,
   children |-> children, parent |-> parent]

\* newMIME(typ, extension, detector, children...): the new node is the last
\* object of the heap; each child's parent is set to it
newMIME(S, typ, extension, detector, children) ==
  LET m  == Len(S.heap) + 1
      pm == Len(S.maps) + 1
      cl == IF children = << >> THEN NilSlice
            ELSE [arr |-> Len(S.lists) + 1, len |-> Len(children)]
      h1 == Append(S.heap,
                   MIME(typ, NilSlice, pm, extension, detector, cl, 0))
  IN  [S EXCEPT
         !.maps  = Append(S.maps, EmptyMap),
         !.lists = IF children = << >> THEN S.lists ELSE Append(S.lists, children),
         !.heap  = [i \in 1..m |->
                      IF \E k \in 1..Len(children) : children[k] = i
                      THEN [h1[i] EXCEPT !.parent = m] ELSE h1[i]]]

\* m.alias(aliases...): the variadic slice becomes m.aliases
alias(S, m, aliases) ==
  [S EXCEPT
     !.arrays = Append(S.arrays, aliases),
     !.heap[m].aliases = [arr |-> Len(S.arrays) + 1, len |-> Len(aliases)]]

\* match's loop and recursion (lines 105-109): the children of m are tried in
\* list order from index i; evaluated lists the nodes whose detector was called
RECURSIVE matchFrom(_, _, _, _, _, _)
\* the descent going into the last child that accepts, not the first
matchFrom_lastAccepting(S, m, i, in, limit, evaluated) ==
  LET cs == Children(S, m)
  IN  IF i > Len(cs) THEN [node |-> m, evaluated |-> evaluated]
      ELSE IF /\ Accepts(S.heap[cs[i]].detector, in, limit)
              /\ ~ \E j \in (i + 1)..Len(cs) :
                     Accepts(S.heap[cs[j]].detector, in, limit)
      THEN matchFrom(S, cs[i], 1, in, limit, Append(evaluated, cs[i]))
      ELSE matchFrom(S, m, i + 1, in, limit, Append(evaluated, cs[i]))

matchFrom(S, m, i, in, limit, evaluated) ==
  LET cs == Children(S, m)
  IN  IF i > Len(cs) THEN [node |-> m, evaluated |-> evaluated]
      ELSE IF Accepts(S.heap[cs[i]].detector, in, limit)
      THEN matchFrom(S, cs[i], 1, in, limit, Append(evaluated, cs[i]))
      ELSE matchFrom(S, m, i + 1, in, limit, Append(evaluated, cs[i]))

\* needsCharset with the test cset != "" left out: an empty label is recorded
needsCharset_keepingEmpty(typ, in) ==
  IF typ = TEXT THEN MapPut(EmptyMap, S_charset, FromPlain(in))
  ELSE IF typ = HTML THEN MapPut(EmptyMap, S_charset, FromHTML(in))
  ELSE IF typ = XML THEN MapPut(EmptyMap, S_charset, FromXML(in))
  ELSE EmptyMap

\* the optional parameters ps of match (lines 111-122)
needsCharset(typ, in) ==
  LET cset == IF typ = TEXT THEN FromPlain(in)
              ELSE IF typ = HTML THEN FromHTML(in)
              ELSE IF typ = XML THEN FromXML(in)
              ELSE << >>
  IN  IF cset # << >> THEN MapPut(EmptyMap, S_charset, cset) ELSE EmptyMap

\* the two loops of clone in the other order: m's own value wins over ps
cloneParams_ownWins(own, ps) ==
  [k \in (DOMAIN own) \cup (DOMAIN ps) |-> IF k \in DOMAIN own THEN own[k] ELSE ps[k]]

\* the params of a clone: m's own, overlaid with ps
cloneParams(own, ps) ==
  [k \in (DOMAIN own) \cup (DOMAIN ps) |-> IF k \in DOMAIN ps THEN ps[k] ELSE own[k]]

\* clone with params: m.params in place of a new map: the clone and m share
\* one map, and ps is written into it
clone_sharingParams(S, m, ps) ==
  IF S.heap[m].params = 0
  THEN [S EXCEPT
          !.maps = Append(S.maps, cloneParams(EmptyMap, ps)),
          !.heap = Append(S.heap,
                     MIME(S.heap[m].typ, S.heap[m].aliases, Len(S.maps) + 1,
                          S.heap[m].extension, NilDetector, NilSlice, 0))]
  ELSE [S EXCEPT
          !.maps[S.heap[m].params] = cloneParams(@, ps),
          !.heap = Append(S.heap,
                     MIME(S.heap[m].typ, S.heap[m].aliases, S.heap[m].params,
                          S.heap[m].extension, NilDetector, NilSlice, 0))]

\* m.clone(ps): a new MIME, the last object of the heap, with a new map; the
\* aliases slice header is copied
clone(S, m, ps) ==
  [S EXCEPT
     !.maps = Append(S.maps, cloneParams(ParamsOf(S, m), ps)),
     !.heap = Append(S.heap,
                MIME(S.heap[m].typ, S.heap[m].aliases, Len(S.maps) + 1,
                     S.heap[m].extension, NilDetector, NilSlice, 0))]

\* the loop of cloneHierarchy: p is the canonical ancestor to clone next
RECURSIVE cloneAncestors(_, _, _)
cloneAncestors(S, p, lastChild) ==
  IF p = 0 THEN S
  ELSE LET S1 == clone(S, p, EmptyMap)
           pClone == Len(S1.heap)
       IN  cloneAncestors([S1 EXCEPT !.heap[lastChild].parent = pClone],
                          Parent(S, p), pClone)

\* m.cloneHierarchy(ps): the store after it, and the clone returned
cloneHierarchy(S, m, ps) ==
  LET S1  == clone(S, m, ps)
      ret == Len(S1.heap)
  IN  [store |-> cloneAncestors(S1, Parent(S, m), ret), ret |-> ret]

\* match returning nil when no child of m accepts
match_nilWhenUnmatched(S, m, in, limit) ==
  LET t == matchFrom(S, m, 1, in, limit, << >>)
      r == cloneHierarchy(S, t.node, needsCharset(S.heap[t.node].typ, in))
  IN  IF t.node = m
      THEN [store |-> S, ret |-> 0, node |-> t.node, evaluated |-> t.evaluated]
      ELSE [store |-> r.store, ret |-> r.ret, node |-> t.node,
            evaluated |-> t.evaluated]

\* m.match(in, readLimit): the store after it and the clone returned, with
\* the node the descent ended at and the nodes whose detector it called
match(S, m, in, limit) ==
  LET t == matchFrom(S, m, 1, in, limit, << >>)
      r == cloneHierarchy(S, t.node, needsCharset(S.heap[t.node].typ, in))
  IN  [store |-> r.store, ret |-> r.ret, node |-> t.node, evaluated |-> t.evaluated]

\* append(m.children, c): the new node last
prepend_atEnd(c, children) == children \o <<c>>

\* []*MIME{c}: the previous children dropped
prepend_replacing(c, children) == <<c>>

\* the child list Extend assigns: append([]*MIME{c}, m.children...)
prepend(c, children) == <<c>> \o children

\* lines 194-203 without parent: m
newChild_noParent(S, m, detector, mimestr, extension, al) ==
  LET r  == ParseMediaType(mimestr)
      pm == IF r.nilParams THEN 0 ELSE Len(S.maps) + 1
      as == IF al.cap = 0 THEN NilSlice
            ELSE IF al.arr # 0 THEN [arr |-> al.arr, len |-> Len(al.elems)]
            ELSE [arr |-> Len(S.arrays) + 1, len |-> Len(al.elems)]
  IN  [S EXCEPT
         !.heap   = Append(S.heap,
                      MIME(r.mediatype, as, pm, extension, detector, NilSlice, 0)),
         !.maps   = IF r.nilParams THEN S.maps ELSE Append(S.maps, r.params),
         !.arrays = IF al.cap = 0 \/ al.arr # 0 THEN S.arrays
                    ELSE Append(S.arrays,
                           [i \in 1..al.cap |->
                              IF i <= Len(al.elems) THEN al.elems[i] ELSE << >>])]

\* lines 194-203 of Extend: mimestr is parsed and the node c made, the last
\* object of the heap; al is the caller's aliases slice, [elems, cap, arr]:
\* cap = 0 for none, arr = 0 for a slice of an array the program has not seen
\* yet, and else the array of the store that the slice is a slice of
newChild(S, m, detector, mimestr, extension, al) ==
  LET r  == ParseMediaType(mimestr)
      pm == IF r.nilParams THEN 0 ELSE Len(S.maps) + 1
      as == IF al.cap = 0 THEN NilSlice
            ELSE IF al.arr # 0 THEN [arr |-> al.arr, len |-> Len(al.elems)]
            ELSE [arr |-> Len(S.arrays) + 1, len |-> Len(al.elems)]
  IN  [S EXCEPT
         !.heap   = Append(S.heap,
                      MIME(r.mediatype, as, pm, extension, detector, NilSlice, m)),
         !.maps   = IF r.nilParams THEN S.maps ELSE Append(S.maps, r.params),
         !.arrays = IF al.cap = 0 \/ al.arr # 0 THEN S.arrays
                    ELSE Append(S.arrays,
                           [i \in 1..al.cap |->
                              IF i <= Len(al.elems) THEN al.elems[i] ELSE << >>])]

\* Extend returning before line 205 when mimestr cannot be parsed: the node
\* is made and not inserted
Extend_skipMalformed(S, m, detector, mimestr, extension, al) ==
  LET S1 == newChild(S, m, detector, mimestr, extension, al)
      nl == prepend(Len(S1.heap), Children(S, m))
  IN  IF ParseMediaType(mimestr).err THEN S1
      ELSE [S1 EXCEPT
              !.lists = Append(S.lists, nl),
              !.heap[m].children = [arr |-> Len(S.lists) + 1, len |-> Len(nl)]]

\* m.Extend(detector, mimestr, extension, aliases...), lines 192-208
Extend(S, m, detector, mimestr, extension, al) ==
  LET S1 == newChild(S, m, detector, mimestr, extension, al)
      nl == prepend(Len(S1.heap), Children(S, m))
  IN  [S1 EXCEPT
         !.lists = Append(S.lists, nl),
         !.heap[m].children = [arr |-> Len(S.lists) + 1, len |-> Len(nl)]]

\* Is comparing expectedMIME as given, unparsed
Is_unparsed(S, m, expectedMIME) ==
  \/ expectedMIME = S.heap[m].typ
  \/ \E i \in 1..Len(AliasesOf(S, m)) : AliasesOf(S, m)[i] = expectedMIME

\* m.Is(expectedMIME)
Is(S, m, expectedMIME) ==
  LET e == ParseMediaType(expectedMIME).mediatype
  IN  \/ e = S.heap[m].typ
      \/ \E i \in 1..Len(AliasesOf(S, m)) : AliasesOf(S, m)[i] = e

\* m.flatten(): m, then the flattened output of each child in list order
RECURSIVE flatten(_, _)
RECURSIVE flattenAll(_, _)
\* flatten with the node after its children
flatten_postorder(S, m) == flattenAll(S, Children(S, m)) \o <<m>>

flatten(S, m) == <<m>> \o flattenAll(S, Children(S, m))
flattenAll(S, cs) ==
  IF cs = << >> THEN << >> ELSE flatten(S, Head(cs)) \o flattenAll(S, Tail(cs))

Range(f) == {f[i] : i \in DOMAIN f}

\* append(m.aliases, string(m.typ)) of line 174: the elements of the slice it
\* returns, and the store after it.  With spare capacity in the array of
\* m.aliases the type is stored in that array, after the last alias; else the
\* slice returned is on a new array, which nothing refers to after the loop
appendTyp(S, m) ==
  LET a == S.heap[m].aliases
  IN  [elems |-> AliasesOf(S, m) \o <<S.heap[m].typ>>,
       store |-> IF a.arr # 0 /\ a.len < Len(S.arrays[a.arr])
                 THEN [S EXCEPT !.arrays[a.arr][a.len + 1] = S.heap[m].typ]
                 ELSE S]

RECURSIVE lookup(_, _, _)
RECURSIVE lookupAll(_, _, _)
\* m.lookup(typ): the store after it and the node returned, 0 for nil
lookup(S, m, typ) ==
  LET a == appendTyp(S, m)
  IN  IF \E i \in 1..Len(a.elems) : a.elems[i] = typ
      THEN [store |-> a.store, ret |-> m]
      ELSE lookupAll(a.store, Children(a.store, m), typ)

\* the loop of lines 180-184 over the children cs
lookupAll(S, cs, typ) ==
  IF cs = << >> THEN [store |-> S, ret |-> 0]
  ELSE LET r == lookup(S, Head(cs), typ)
       IN  IF r.ret # 0 THEN r ELSE lookupAll(r.store, Tail(cs), typ)

(***************************************************************************)
(* The canonical tree at initialisation: the root and its built-in         *)
(* children, made by newMIME leaves first.                                 *)
(***************************************************************************)
EmptyStore == [heap |-> << >>, maps |-> << >>, arrays |-> << >>, lists |-> << >>]

S_extHtml == <<".","h","t","m","l">>
S_extXml  == <<".","x","m","l">>
S_extTxt  == <<".","t","x","t">>
S_appXml  == <<"a","p","p","/","x","m","l">>

TreeHtml == newMIME(EmptyStore, HTML, S_extHtml, Sig(<<1, 2>>), << >>)
TreeXml  ==
  LET S == newMIME(TreeHtml, XML, S_extXml, Sig(<<1, 3>>), << >>)
  IN  alias(S, Len(S.heap), <<S_appXml>>)
TreeText ==
  newMIME(TreeXml, TEXT, S_extTxt, Sig(<<1>>),
          <<Len(TreeHtml.heap), Len(TreeXml.heap)>>)
InitTree ==
  newMIME(TreeText, S_octet, S_empty, Sig(<< >>), <<Len(TreeText.heap)>>)

\* the package variable root
root == Len(InitTree.heap)

(***************************************************************************)
(* State                                                                   *)
(***************************************************************************)
VARIABLES
  heap,     \* the MIME objects, canonical nodes and clones
  maps,     \* the map objects (params)
  arrays,   \* the backing arrays of the alias slices
  lists,    \* the backing arrays of the children slices
  results,  \* the match calls made: input, limit, the *MIME returned (ret),
            \* the size of the heap at the call (at), what the caller saw at
            \* return (seen), the node the descent ended at (node) and the
            \* nodes whose detector was called (evaluated)
  mutated,  \* the clones whose params a caller has written
  isCall,   \* the last call of Is: the node, the argument, the value returned
  rdCall,   \* the last call of lookup or flatten: the node, the argument, what
            \* it returned
  nreads,   \* the number of lookup and flatten calls made
  mu,       \* the lock mu: the goroutine in Extend that holds it, 0 for none
  rd,       \* the goroutines in match: where each is, and its local variables
  wr,       \* the goroutines in Extend: where each is, and its local variables
  pub       \* the <<node, children list>> pairs that have been assigned whole

callVars == <<isCall, rdCall, nreads>>
raceVars == <<mu, rd, wr, pub>>

vars == <<heap, maps, arrays, lists, results, mutated, isCall, rdCall, nreads,
          mu, rd, wr, pub>>

Store == [heap |-> heap, maps |-> maps, arrays |-> arrays, lists |-> lists]

SetStore(S) ==
  /\ heap' = S.heap
  /\ maps' = S.maps
  /\ arrays' = S.arrays
  /\ lists' = S.lists

\* the canonical nodes of the tree
Canonical(S) == Range(flatten(S, root))

\* the chain m, m.Parent(), ... of at most fuel + 1 objects
RECURSIVE chain(_, _, _)
chain(S, m, fuel) ==
  IF m = 0 THEN << >>
  ELSE IF fuel = 0 THEN <<m>>
  ELSE <<m>> \o chain(S, Parent(S, m), fuel - 1)

\* what the accessors Type, Extension, the params and the aliases show of m
Seen(S, m) ==
  [typ |-> S.heap[m].typ, params |-> ParamsOf(S, m),
   extension |-> S.heap[m].extension, aliases |-> AliasesOf(S, m)]

\* the same along the Parent() chain of m
SeenChain(S, m) ==
  LET c == chain(S, m, Len(S.heap)) IN [i \in 1..Len(c) |-> Seen(S, c[i])]

(***************************************************************************)
(* Bounds and inputs                                                       *)
(***************************************************************************)
MaxExtend == 2
MaxMatch  == 2
MaxMutate == 1
NReaders  == 1
NWriters  == 2
MaxRead   == 2

Readers == 1..NReaders
Writers == 1..NWriters

S_zz      == <<"a","p","p","/","z","z",";"," ","c","h","a","r","s","e","t","=","l","1">>
S_upText  == <<" ","T","E","X","T","/","P","l","a","i","n",";","c","h","a","r","s","e","t","=","l","1">>
S_badType == <<"b","a","d"," ","t","y","p","e">>
S_extZz   == <<".","z","z">>
S_alt     == <<"t","/","a","l","t">>

NoAliases == [elems |-> << >>, cap |-> 0, arr |-> 0]

\* the arguments of the Extend calls
ExtendArgs ==
  { [detector |-> Sig(<< >>),     mimestr |-> S_zz,      extension |-> S_extZz,
     aliases |-> NoAliases],
    [detector |-> Sig(<<1>>),     mimestr |-> S_upText,  extension |-> S_extTxt,
     aliases |-> [elems |-> <<S_alt>>, cap |-> 2, arr |-> 0]],
    [detector |-> Sig(<<1, 2>>),  mimestr |-> S_badType, extension |-> S_empty,
     aliases |-> [elems |-> <<S_alt>>, cap |-> 2, arr |-> 0]] }

\* the inputs and read limits of the match calls
MatchArgs ==
  { [in |-> << >>, limit |-> 0],
    [in |-> <<1>>, limit |-> 0],
    [in |-> <<1, 2, 8>>, limit |-> 0],
    [in |-> <<1, 2, 8>>, limit |-> 1],
    [in |-> <<1, 3, 8>>, limit |-> 2] }

\* the parameters a caller writes into a result
MutateArgs == { <<S_charset, <<"m">> >> }

S_upper   == <<" ","T","E","X","T","/","P","l","a","i","n">>

\* the arguments of the Is calls: a base, and what follows the base
IsBases == {S_text, S_upper, S_appXml, S_badType, S_empty}
IsTails ==
  { << >>,
    <<";">>,
    <<";"," ","c","h","a","r","s","e","t","=","l","1">>,
    <<" ",";","c","h","a","r","s","e","t","=","U","8",";"," ">>,
    <<";"," ","=","x">>,
    <<";","a","=","1",";","a","=","2">> }
IsArgs == {b \o t : b \in IsBases, t \in IsTails}

S_badParam == <<"t","e","x","t","/","p","l","a","i","n",";"," ","=","x">>
S_dupParam == <<"a","p","p","/","z","z",";","a","=","1",";","a","=","2">>

\* the arguments of the Extend calls whose mimestr mime.ParseMediaType rejects:
\* no "/" subtype and a space, a parameter with no name, a parameter given
\* twice, the empty string
MalformedArgs ==
  { [detector |-> Sig(<<1, 2>>), mimestr |-> S_badType,  extension |-> S_empty,
     aliases |-> NoAliases],
    [detector |-> Sig(<<1>>),    mimestr |-> S_badParam, extension |-> S_extTxt,
     aliases |-> NoAliases],
    [detector |-> Sig(<< >>),    mimestr |-> S_dupParam, extension |-> S_extZz,
     aliases |-> NoAliases],
    [detector |-> Sig(<<1, 3>>), mimestr |-> S_empty,    extension |-> S_empty,
     aliases |-> NoAliases] }

\* the identifiers looked up: a type two nodes can have, an alias of a
\* built-in node, an alias given to Extend, the empty string, and a type in
\* another case
LookupArgs == {S_text, S_appXml, S_alt, S_empty, S_upper}

\* no call of lookup or flatten made yet
NoRead == [op |-> "none", m |-> 0, typ |-> << >>, ret |-> 0, out |-> << >>]

\* a goroutine that has not called match yet, one that has not called Extend
IdleReader ==
  [pc |-> "idle", in |-> << >>, limit |-> 0, cur |-> 0, hdr |-> NilSlice,
   got |-> {}, i |-> 0, evaluated |-> << >>, started |-> 0, returned |-> 0]
IdleWriter ==
  [pc |-> "idle", m |-> 0, c |-> 0, new |-> NilSlice, wrote |-> {}]

(***************************************************************************)
(* Operations                                                              *)
(***************************************************************************)
Init ==
  /\ heap = InitTree.heap
  /\ maps = InitTree.maps
  /\ arrays = InitTree.arrays
  /\ lists = InitTree.lists
  /\ results = << >>
  /\ mutated = {}
  /\ isCall = [called |-> FALSE, m |-> 0, expected |-> << >>, ret |-> FALSE]
  /\ rdCall = NoRead
  /\ nreads = 0
  /\ mu = 0
  /\ rd = [p \in Readers |-> IdleReader]
  /\ wr = [e \in Writers |-> IdleWriter]
  /\ pub = {<<m, Children(InitTree, m)>> : m \in 1..Len(InitTree.heap)}

\* a call of Extend on a canonical node
ExtendCall ==
  /\ Cardinality(Canonical(Store)) < Cardinality(Canonical(InitTree)) + MaxExtend
  /\ \E m \in Canonical(Store), a \in ExtendArgs :
    /\ SetStore(Extend(Store, m, a.detector, a.mimestr, a.extension, a.aliases))
    /\ UNCHANGED <<results, mutated, callVars, raceVars>>

\* a call of match on the root
MatchCall ==
  \E a \in MatchArgs :
    /\ Len(results) < MaxMatch
    /\ LET r == match(Store, root, a.in, a.limit)
       IN  /\ SetStore(r.store)
           /\ results' = Append(results,
                [in |-> a.in, limit |-> a.limit, ret |-> r.ret,
                 at |-> Len(heap), seen |-> SeenChain(r.store, r.ret),
                 node |-> r.node, evaluated |-> r.evaluated])
    /\ UNCHANGED <<mutated, callVars, raceVars>>

\* the clones a caller holds: the results and their Parent() chains
Held(S) == UNION {Range(chain(S, results[i].ret, Len(S.heap))) : i \in 1..Len(results)}

\* a caller writes a parameter of a clone it holds
MutateParams ==
  \E c \in Held(Store) \ mutated, kv \in MutateArgs :
    /\ Cardinality(mutated) < MaxMutate
    /\ heap[c].params # 0
    /\ maps' = [maps EXCEPT ![heap[c].params] = MapPut(@, kv[1], kv[2])]
    /\ mutated' = mutated \cup {c}
    /\ UNCHANGED <<heap, arrays, lists, results, callVars, raceVars>>

Next == ExtendCall \/ MatchCall \/ MutateParams

Spec == Init /\ [][Next]_vars

\* a call of Is on a node of the tree
IsCall ==
  \E m \in Canonical(Store), e \in IsArgs :
    /\ ~isCall.called
    /\ isCall' = [called |-> TRUE, m |-> m, expected |-> e, ret |-> Is(Store, m, e)]
    /\ UNCHANGED <<heap, maps, arrays, lists, results, mutated, rdCall, nreads,
                   raceVars>>

\* Is on the nodes of every tree the Extend calls make
NextIs == ExtendCall \/ IsCall

SpecIs == Init /\ [][NextIs]_vars

\* a call of Extend whose aliases argument is a slice the caller has passed
\* to Extend before, for node n, resliced to the capacity of its array
ExtendSameSlice ==
  /\ Cardinality(Canonical(Store)) < Cardinality(Canonical(InitTree)) + MaxExtend
  /\ \E m \in Canonical(Store), n \in Canonical(Store), a \in ExtendArgs :
    /\ n > root
    /\ heap[n].aliases.arr # 0
    /\ heap[n].aliases.len < Len(arrays[heap[n].aliases.arr])
    /\ SetStore(Extend(Store, m, a.detector, a.mimestr, a.extension,
                       [elems |-> arrays[heap[n].aliases.arr],
                        cap   |-> Len(arrays[heap[n].aliases.arr]),
                        arr   |-> heap[n].aliases.arr]))
    /\ UNCHANGED <<results, mutated, callVars, raceVars>>

\* the calls of match, lookup and flatten made are fewer than MaxRead
ReadBudget == nreads + Len(results) < MaxRead

\* a call of lookup on a canonical node
LookupCall ==
  \E m \in Canonical(Store), t \in LookupArgs :
    /\ ReadBudget
    /\ LET r == lookup(Store, m, t)
       IN  /\ SetStore(r.store)
           /\ rdCall' = [op |-> "lookup", m |-> m, typ |-> t, ret |-> r.ret,
                         out |-> << >>]
    /\ nreads' = nreads + 1
    /\ UNCHANGED <<results, mutated, isCall, raceVars>>

\* a call of flatten on a canonical node
FlattenCall ==
  \E m \in Canonical(Store) :
    /\ ReadBudget
    /\ rdCall' = [op |-> "flatten", m |-> m, typ |-> << >>, ret |-> 0,
                  out |-> flatten(Store, m)]
    /\ nreads' = nreads + 1
    /\ UNCHANGED <<heap, maps, arrays, lists, results, mutated, isCall, raceVars>>

\* match, lookup and flatten on the trees the Extend calls make
NextRead ==
  \/ ExtendCall
  \/ ExtendSameSlice
  \/ ReadBudget /\ MatchCall
  \/ LookupCall
  \/ FlattenCall

SpecRead == Init /\ [][NextRead]_vars

\* a call of Extend on a canonical node with a mimestr that cannot be parsed
ExtendMalformed ==
  /\ Cardinality(Canonical(Store)) < Cardinality(Canonical(InitTree)) + MaxExtend
  /\ \E m \in Canonical(Store), a \in MalformedArgs :
    /\ SetStore(Extend(Store, m, a.detector, a.mimestr, a.extension, a.aliases))
    /\ UNCHANGED <<results, mutated, callVars, raceVars>>

\* match on the trees that Extend calls with malformed type strings make
NextMalformed == ExtendMalformed \/ MatchCall

SpecMalformed == Init /\ [][NextMalformed]_vars

(***************************************************************************)
(* match and Extend in goroutines.  A children field is a slice header of  *)
(* several words: a goroutine reads or writes it one word at a time.       *)
(* Extend writes it holding mu (lines 205-207); match reads it at line 105 *)
(* and takes no lock.                                                      *)
(***************************************************************************)

\* whether the callers of match hold mu for reading during the call
ReadersLock == FALSE

\* the words of a slice header that the model tells apart
Words == {"arr", "len"}

\* the nodes published in the tree
Published == {x[1] : x \in pub}

\* the number of Extend calls whose store of line 206 is complete
Stored == Cardinality({e \in Writers : wr[e].pc \in {"unlock", "done"}})

\* a goroutine calls match on the root
MatchStart(p) ==
  \E a \in MatchArgs :
    /\ rd[p].pc = "idle"
    /\ ReadersLock => mu = 0
    /\ rd' = [rd EXCEPT ![p] =
                [IdleReader EXCEPT !.pc = "load", !.in = a.in, !.limit = a.limit,
                                   !.cur = root, !.started = Stored]]
    /\ UNCHANGED <<heap, maps, arrays, lists, results, mutated, callVars, mu, wr, pub>>

\* line 105, range m.children: one word of the header is loaded
MatchLoad(p) ==
  \E w \in Words \ rd[p].got :
    /\ rd[p].pc = "load"
    /\ rd' = [rd EXCEPT
                ![p].hdr = IF w = "arr"
                           THEN [@ EXCEPT !.arr = heap[rd[p].cur].children.arr]
                           ELSE [@ EXCEPT !.len = heap[rd[p].cur].children.len],
                ![p].got = @ \cup {w},
                ![p].pc  = IF rd[p].got \cup {w} = Words THEN "scan" ELSE "load",
                ![p].i   = 1]
    /\ UNCHANGED <<heap, maps, arrays, lists, results, mutated, callVars, mu, wr, pub>>

\* the index i is within the array the loaded header points to
InBounds(p) ==
  /\ rd[p].hdr.arr # 0
  /\ rd[p].i <= Len(lists[rd[p].hdr.arr])

\* the reader goes on with child c (lines 106-108): it descends into c when
\* c's detector accepts, and tries the next index when not
Try(p, c) ==
  IF Accepts(heap[c].detector, rd[p].in, rd[p].limit)
  THEN [rd[p] EXCEPT !.pc = "load", !.cur = c, !.got = {}, !.hdr = NilSlice,
                     !.i = 0, !.evaluated = Append(@, c)]
  ELSE [rd[p] EXCEPT !.i = @ + 1, !.evaluated = Append(@, c)]

\* lines 105-108: the next element of the loaded list is read and its
\* detector called
MatchScan(p) ==
  /\ rd[p].pc = "scan"
  /\ rd[p].i <= rd[p].hdr.len
  /\ InBounds(p)
  /\ rd' = [rd EXCEPT ![p] = Try(p, lists[rd[p].hdr.arr][rd[p].i])]
  /\ UNCHANGED <<heap, maps, arrays, lists, results, mutated, callVars, mu, wr, pub>>

\* the same with a header whose length exceeds its array: the read is
\* outside the array and what it yields is not defined; "outside" stands for
\* every continuation (a fault, or a descent into whatever the word holds)
MatchScanOutside(p) ==
  /\ rd[p].pc = "scan"
  /\ rd[p].i <= rd[p].hdr.len
  /\ ~InBounds(p)
  /\ rd' = [rd EXCEPT ![p].pc = "outside"]
  /\ UNCHANGED <<heap, maps, arrays, lists, results, mutated, callVars, mu, wr, pub>>

\* lines 111-124: no child accepted; the charset is detected and the
\* hierarchy cloned
MatchReturn(p) ==
  /\ rd[p].pc = "scan"
  /\ rd[p].i > rd[p].hdr.len
  /\ LET r == cloneHierarchy(Store, rd[p].cur,
                             needsCharset(heap[rd[p].cur].typ, rd[p].in))
     IN  /\ SetStore(r.store)
         /\ results' = Append(results,
              [in |-> rd[p].in, limit |-> rd[p].limit, ret |-> r.ret,
               at |-> Len(heap), seen |-> SeenChain(r.store, r.ret),
               node |-> rd[p].cur, evaluated |-> rd[p].evaluated])
  /\ rd' = [rd EXCEPT ![p].pc = "done", ![p].returned = Stored]
  /\ UNCHANGED <<mutated, callVars, mu, wr, pub>>

\* lines 194-203 of Extend: the new node c is made
ExtendStart(e) ==
  \E m \in Published, a \in ExtendArgs :
    /\ wr[e].pc = "idle"
    /\ SetStore(newChild(Store, m, a.detector, a.mimestr, a.extension, a.aliases))
    /\ wr' = [wr EXCEPT ![e] = [IdleWriter EXCEPT !.pc = "lock", !.m = m,
                                                  !.c = Len(heap) + 1]]
    /\ UNCHANGED <<results, mutated, callVars, mu, rd, pub>>

\* line 205 without waiting for mu to be free
ExtendLock_noWait(e) ==
  /\ wr[e].pc = "lock"
  /\ mu' = e
  /\ wr' = [wr EXCEPT ![e].pc = "build"]
  /\ UNCHANGED <<heap, maps, arrays, lists, results, mutated, callVars, rd, pub>>

\* line 205: mu.Lock()
ExtendLock(e) ==
  /\ wr[e].pc = "lock"
  /\ mu = 0
  /\ ReadersLock => \A p \in Readers : rd[p].pc \in {"idle", "done", "outside"}
  /\ mu' = e
  /\ wr' = [wr EXCEPT ![e].pc = "build"]
  /\ UNCHANGED <<heap, maps, arrays, lists, results, mutated, callVars, rd, pub>>

\* line 206 with the new list built in the array of the previous one
ExtendBuild_inPlace(e) ==
  /\ wr[e].pc = "build"
  /\ lists' = IF heap[wr[e].m].children.arr = 0
              THEN Append(lists, prepend(wr[e].c, Children(Store, wr[e].m)))
              ELSE [lists EXCEPT ![heap[wr[e].m].children.arr] =
                      prepend(wr[e].c, Children(Store, wr[e].m))]
  /\ wr' = [wr EXCEPT ![e].pc = "write",
                      ![e].new = [arr |-> IF heap[wr[e].m].children.arr = 0
                                          THEN Len(lists) + 1
                                          ELSE heap[wr[e].m].children.arr,
                                  len |-> Len(Children(Store, wr[e].m)) + 1]]
  /\ UNCHANGED <<heap, maps, arrays, results, mutated, callVars, mu, rd, pub>>

\* line 206, right-hand side: append([]*MIME{c}, m.children...), a new array
ExtendBuild(e) ==
  /\ wr[e].pc = "build"
  /\ lists' = Append(lists, prepend(wr[e].c, Children(Store, wr[e].m)))
  /\ wr' = [wr EXCEPT ![e].pc = "write",
                      ![e].new = [arr |-> Len(lists) + 1,
                                  len |-> Len(Children(Store, wr[e].m)) + 1]]
  /\ UNCHANGED <<heap, maps, arrays, results, mutated, callVars, mu, rd, pub>>

\* line 206, the assignment to m.children: one word of the header is stored
ExtendWrite(e) ==
  \E w \in Words \ wr[e].wrote :
    /\ wr[e].pc = "write"
    /\ heap' = [heap EXCEPT ![wr[e].m].children =
                  IF w = "arr" THEN [@ EXCEPT !.arr = wr[e].new.arr]
                  ELSE [@ EXCEPT !.len = wr[e].new.len]]
    /\ wr' = [wr EXCEPT ![e].wrote = @ \cup {w},
                        ![e].pc = IF wr[e].wrote \cup {w} = Words
                                  THEN "unlock" ELSE "write"]
    /\ pub' = IF wr[e].wrote \cup {w} = Words
              THEN pub \cup {<<wr[e].m, lists[wr[e].new.arr]>>, <<wr[e].c, << >> >>}
              ELSE pub
    /\ UNCHANGED <<maps, arrays, lists, results, mutated, callVars, mu, rd>>

\* line 207: mu.Unlock()
ExtendUnlock(e) ==
  /\ wr[e].pc = "unlock"
  /\ mu' = 0
  /\ wr' = [wr EXCEPT ![e].pc = "done"]
  /\ UNCHANGED <<heap, maps, arrays, lists, results, mutated, callVars, rd, pub>>

NextRace ==
  \/ \E p \in Readers :
       MatchStart(p) \/ MatchLoad(p) \/ MatchScan(p) \/ MatchScanOutside(p)
         \/ MatchReturn(p)
  \/ \E e \in Writers :
       ExtendStart(e) \/ ExtendLock(e) \/ ExtendBuild(e) \/ ExtendWrite(e)
         \/ ExtendUnlock(e)

SpecRace == Init /\ [][NextRace]_vars

(***************************************************************************)
(* Properties                                                              *)
(***************************************************************************)
StoreNext == [heap |-> heap', maps |-> maps', arrays |-> arrays', lists |-> lists']

\* the type and the aliases of m
Names(S, m) == {S.heap[m].typ} \cup Range(AliasesOf(S, m))

\* following Parent() from m reaches an object with no parent in at most
\* fuel steps
RECURSIVE ParentEnds(_, _, _)
ParentEnds(S, m, fuel) ==
  IF S.heap[m].parent = 0 THEN TRUE
  ELSE IF fuel = 0 THEN FALSE
  ELSE ParentEnds(S, S.heap[m].parent, fuel - 1)

\* the canonical path of result r: the node its descent ended at and that
\* node's ancestors
PathOf(r) == Range(chain(Store, r.node, Len(heap)))

\* the nodes Extend added that were in the tree when the match of r started
ExtendedBefore(r) == {c \in Canonical(Store) : c > root /\ c <= r.at}

ResultIds == 1..Len(results)

\* C2: every match returns a result, and following Parent() from it ends at
\* a result with no parent
C2_MatchTotal ==
  \A i \in ResultIds :
    /\ results[i].ret \in 1..Len(heap)
    /\ ParentEnds(Store, results[i].ret, Len(heap))

\* a match of the empty input, on a tree Extend has changed, returned a chain
\* of at least two results
C2_Witness ==
  \E i \in ResultIds :
    /\ results[i].in = << >>
    /\ ExtendedBefore(results[i]) # {}
    /\ Len(results[i].seen) >= 2

\* C3 as stated: a match made after Extend(d) on m completed, that reaches m
\* with an input d accepts, descends into the added node
C3_NewDetectorAlwaysFirst ==
  \A i \in ResultIds : \A c \in ExtendedBefore(results[i]) :
    ( /\ heap[c].parent \in PathOf(results[i])
      /\ Accepts(heap[c].detector, results[i].in, results[i].limit) )
    => c \in PathOf(results[i])

\* C3 as amended: it descends into the added node unless a node that a later
\* Extend added to m, before the match, accepts the input too
C3_NewDetectorFirstUntilNext ==
  \A i \in ResultIds : \A c \in ExtendedBefore(results[i]) :
    ( /\ heap[c].parent \in PathOf(results[i])
      /\ Accepts(heap[c].detector, results[i].in, results[i].limit)
      /\ ~ \E c2 \in ExtendedBefore(results[i]) :
             /\ c2 > c
             /\ heap[c2].parent = heap[c].parent
             /\ Accepts(heap[c2].detector, results[i].in, results[i].limit) )
    => c \in PathOf(results[i])

\* a match descended into an added node although an older sibling accepts
\* the input too
C3_Witness ==
  \E i \in ResultIds : \E c \in ExtendedBefore(results[i]) :
    /\ c \in PathOf(results[i])
    /\ \E s \in Canonical(Store) :
         /\ s < c
         /\ heap[s].parent = heap[c].parent
         /\ Accepts(heap[s].detector, results[i].in, results[i].limit)

\* a step of Extend: the only operation that makes a children list
IsExtendStep == Len(lists') = Len(lists) + 1

\* what a match of a on the tree of store S returns, as its caller sees it
Returned(S, a) ==
  LET r == match(S, root, a.in, a.limit) IN SeenChain(r.store, r.ret)

\* C4: Extend on m keeps every previous child of m, after the new node and in
\* the previous order, and a match of an input the new detector rejects
\* returns the type, parameters and extension it returned before
C4_ExtendKeepsDetectors ==
  [][ IsExtendStep =>
        LET c == Len(heap) + 1
            m == heap'[c].parent
        IN  /\ Children(StoreNext, m) = <<c>> \o Children(Store, m)
            /\ \A n \in Canonical(Store) \ {m} :
                 Children(StoreNext, n) = Children(Store, n)
            /\ \A a \in MatchArgs :
                 ~Accepts(heap'[c].detector, a.in, a.limit)
                 => Returned(StoreNext, a) = Returned(Store, a) ]_vars

\* a match made after an Extend on m passed the new node, whose detector
\* rejected the input, and descended into a previous child of m
C4_Witness ==
  \E i \in ResultIds : \E c \in ExtendedBefore(results[i]) :
    /\ ~Accepts(heap[c].detector, results[i].in, results[i].limit)
    /\ \E k \in 1..Len(results[i].evaluated) : results[i].evaluated[k] = c
    /\ \E s \in PathOf(results[i]) : s < c /\ heap[s].parent = heap[c].parent

\* a step in which a caller writes a parameter of a clone
IsMutateStep == mutated' # mutated

\* C5: a caller's write to the parameters of one result changes neither the
\* parameters seen through any other clone nor those of a canonical node, and
\* every match returns afterwards what it returned before
C5_CloneIndependence ==
  [][ IsMutateStep =>
        /\ \A n \in (1..Len(heap)) \ (mutated' \ mutated) :
             ParamsOf(StoreNext, n) = ParamsOf(Store, n)
        /\ \A a \in MatchArgs : Returned(StoreNext, a) = Returned(Store, a) ]_vars

\* two results of two match calls of the same input exist, one of them
\* written by its caller, the other still as it was returned
C5_Witness ==
  /\ Len(results) >= 2
  /\ results[1].in = results[2].in
  /\ results[1].ret \in mutated
  /\ heap[results[1].node].params # 0
  /\ SeenChain(Store, results[1].ret) # results[1].seen
  /\ SeenChain(Store, results[2].ret) = results[2].seen

\* the mutable objects reachable from the MIME objects ms: the objects
\* themselves, their parameter maps and the backing arrays of their aliases
Reach(S, ms) ==
  [nodes  |-> ms,
   maps   |-> {S.heap[m].params : m \in ms} \ {0},
   arrays |-> {S.heap[m].aliases.arr : m \in ms} \ {0}]

Disjoint(x, y) ==
  /\ x.nodes \cap y.nodes = {}
  /\ x.maps \cap y.maps = {}
  /\ x.arrays \cap y.arrays = {}

ResultReach(i) == Reach(Store, Range(chain(Store, results[i].ret, Len(heap))))

\* C6: no mutable object reachable from a result is reachable from a
\* canonical node or from the result of another match call
C6_NoSharedMutableState ==
  \A i \in ResultIds :
    /\ Disjoint(ResultReach(i), Reach(Store, Canonical(Store)))
    /\ \A j \in ResultIds \ {i} : Disjoint(ResultReach(i), ResultReach(j))

\* no Extend has changed the tree between the match calls of results i and j
SameTree(i, j) ==
  ~ \E c \in Canonical(Store) :
      /\ c > results[i].at /\ c <= results[j].at

\* C7: two matches of the same bytes with the same limit, with no Extend in
\* between, return chains of the same types, parameters and extensions
C7_Determinism ==
  \A i \in ResultIds : \A j \in ResultIds :
    ( /\ i < j
      /\ results[i].in = results[j].in
      /\ results[i].limit = results[j].limit
      /\ SameTree(i, j) )
    => results[j].seen = results[i].seen

\* the same input was matched twice on an extended tree, the first result
\* written by its caller before the second match, and charset was detected
C7_Witness ==
  /\ Len(results) >= 2
  /\ results[1].in = results[2].in
  /\ results[1].limit = results[2].limit
  /\ SameTree(1, 2)
  /\ results[1].node > root
  /\ results[1].ret \in mutated
  /\ S_charset \in DOMAIN results[2].seen[1].params

\* the charset function of a family, "" for a type of no family
CharsetFor(typ, in) ==
  IF typ = S_text THEN FromPlain(in)
  ELSE IF typ = S_html THEN FromHTML(in)
  ELSE IF typ = S_xml THEN FromXML(in)
  ELSE << >>

\* C10 as stated: the result has charset = the label detected when the
\* terminal type is of a family and the label is not empty, and has no
\* charset parameter otherwise
C10_CharsetAbsentOtherwise ==
  \A i \in ResultIds :
    LET r == results[i]
        label == CharsetFor(r.seen[1].typ, r.in)
    IN  IF label # << >>
        THEN /\ S_charset \in DOMAIN r.seen[1].params
             /\ r.seen[1].params[S_charset] = label
        ELSE S_charset \notin DOMAIN r.seen[1].params

\* C10 as amended: otherwise match adds no parameter, and the result has
\* exactly the parameters of the terminal node; ancestors never get the label
C10_CharsetAugmentation ==
  \A i \in ResultIds :
    LET r == results[i]
        label == CharsetFor(r.seen[1].typ, r.in)
    IN  IF label # << >>
        THEN /\ S_charset \in DOMAIN r.seen[1].params
             /\ r.seen[1].params[S_charset] = label
        ELSE r.seen[1].params = ParamsOf(Store, r.node)

\* a result of a family type for which no label was detected has the charset
\* of its terminal node, and another result has a detected label
C10_Witness ==
  /\ \E i \in ResultIds :
       /\ results[i].seen[1].typ = S_text
       /\ FromPlain(results[i].in) = << >>
       /\ S_charset \in DOMAIN results[i].seen[1].params
  /\ \E i \in ResultIds :
       /\ CharsetFor(results[i].seen[1].typ, results[i].in) # << >>
       /\ S_charset \in DOMAIN ParamsOf(Store, results[i].node)

\* the base type of a media type string: what precedes the first ";",
\* lower-cased and without surrounding space
BaseType(e) == TrimSpace(ToLower(CutBase(e)))

\* C8: when expected cannot be parsed, Is returns true exactly when the raw
\* string expected is the node's type or one of its aliases
C8_IsFallsBackToRaw ==
  (isCall.called /\ ParseMediaType(isCall.expected).err)
  => (isCall.ret <=> isCall.expected \in Names(Store, isCall.m))

\* C9: for a parseable expected, Is returns true exactly when the base type
\* of expected is the node's type or one of its aliases, whatever the
\* parameters of expected and of the node
C9_IsParameterInsensitive ==
  (isCall.called /\ ~ParseMediaType(isCall.expected).err)
  => (isCall.ret <=> BaseType(isCall.expected) \in Names(Store, isCall.m))

\* Is returned true for an expected with parameters on a node with other
\* parameters
C9_Witness ==
  /\ isCall.called
  /\ isCall.ret
  /\ ~ParseMediaType(isCall.expected).err
  /\ DOMAIN ParseMediaType(isCall.expected).params # {}
  /\ DOMAIN ParamsOf(Store, isCall.m) # {}
  /\ ParseMediaType(isCall.expected).params # ParamsOf(Store, isCall.m)

\* the children list reader p has loaded, when its header is within an array
Observed(p) ==
  IF rd[p].hdr.len = 0 THEN << >>
  ELSE SubSeq(lists[rd[p].hdr.arr], 1, rd[p].hdr.len)

\* the header reader p has loaded lies within an array
Whole(p) ==
  \/ rd[p].hdr.len = 0
  \/ rd[p].hdr.arr # 0 /\ rd[p].hdr.len <= Len(lists[rd[p].hdr.arr])

\* a match is in the middle of reading the children field of a node while an
\* Extend is in the middle of writing it
DataRace ==
  \E p \in Readers, e \in Writers :
    /\ rd[p].pc = "load" /\ Cardinality(rd[p].got) = 1
    /\ wr[e].pc = "write" /\ Cardinality(wr[e].wrote) = 1
    /\ rd[p].cur = wr[e].m

\* what a match loads at a node is a list that was assigned to the node whole
NoTornRead ==
  \A p \in Readers :
    /\ rd[p].pc # "outside"
    /\ rd[p].pc = "scan" => (Whole(p) /\ <<rd[p].cur, Observed(p)>> \in pub)

\* C1: match and Extend in goroutines have no data race on a children field,
\* and the list a match loads at a node is one that was assigned to the node
\* whole, the list before or the list after an Extend
C1_NoRaceNoTornRead == ~DataRace /\ NoTornRead

\* the step is a call of Extend: an object is made and no match returns
IsExtendCallStep == Len(heap') = Len(heap) + 1 /\ results' = results

\* the parameters a match may add: charset, when a label is detected
DetectedOnly(typ, in) ==
  IF CharsetFor(typ, in) = << >> THEN EmptyMap
  ELSE [k \in {S_charset} |-> CharsetFor(typ, in)]

\* the result r of a match that ended at a node Extend made from a malformed
\* type string is an object, and has the detected charset and nothing else
MalformedResultOk(S, r) ==
  r.node > root =>
    /\ r.ret \in 1..Len(S.heap)
    /\ r.seen[1].typ = S.heap[r.node].typ
    /\ r.seen[1].params = DetectedOnly(S.heap[r.node].typ, r.in)

\* C11: Extend with a type string that cannot be parsed puts the new node at
\* the head of the target's children with no parameters, and every match
\* that ends at such a node returns a result whose only parameter is the
\* charset detected, if any
C11_ExtendMalformed ==
  [][ /\ IsExtendCallStep =>
           LET c == Len(heap) + 1
               m == heap'[c].parent
           IN  /\ Children(StoreNext, m) = <<c>> \o Children(Store, m)
               /\ ParamsOf(StoreNext, c) = EmptyMap
      /\ \A i \in 1..Len(results') : MalformedResultOk(StoreNext, results'[i])
    ]_vars

\* every type string of MalformedArgs is rejected by the parser; one match
\* ended at a node of type text/plain made from one and detected a charset,
\* another ended at a node of type "" and has no parameter
C11_Witness ==
  /\ \A a \in MalformedArgs : ParseMediaType(a.mimestr).err
  /\ \E i \in ResultIds :
       /\ results[i].node > root
       /\ results[i].seen[1].typ = S_text
       /\ S_charset \in DOMAIN results[i].seen[1].params
  /\ \E i \in ResultIds :
       /\ results[i].node > root
       /\ results[i].seen[1].typ = S_empty
       /\ results[i].seen[1].params = EmptyMap

\* the nodes reachable from the nodes ns through children lists
RECURSIVE Closure(_, _)
Closure(S, ns) ==
  LET more == ns \cup UNION {Range(Children(S, n)) : n \in ns}
  IN  IF more = ns THEN ns ELSE Closure(S, more)

\* the subtree of m: m and its descendants
Subtree(S, m) == Closure(S, {m})

IndexIn(out, n) == CHOOSE i \in 1..Len(out) : out[i] = n

\* out lists the subtree of m in preorder: m first, each node once, and each
\* node followed at once by its whole subtree, its children in list order
Preorder(S, m, out) ==
  /\ out # << >>
  /\ out[1] = m
  /\ Len(out) = Cardinality(Subtree(S, m))
  /\ Range(out) = Subtree(S, m)
  /\ \A i \in 1..Len(out) : \A j \in 1..Len(out) : i # j => out[i] # out[j]
  /\ \A i \in 1..Len(out) :
       LET n  == out[i]
           sz == Cardinality(Subtree(S, n))
           cs == Children(S, n)
       IN  /\ i + sz - 1 <= Len(out)
           /\ {out[k] : k \in i..(i + sz - 1)} = Subtree(S, n)
           /\ \A a \in 1..Len(cs) : \A b \in 1..Len(cs) :
                a < b => IndexIn(out, cs[a]) < IndexIn(out, cs[b])

\* the step is a call of flatten, of lookup
IsFlattenStep == nreads' = nreads + 1 /\ rdCall'.op = "flatten"
IsLookupStep  == nreads' = nreads + 1 /\ rdCall'.op = "lookup"

\* C12: flatten on a node returns the nodes of its subtree, as many entries
\* as the subtree has nodes, in preorder and each once, on every tree that
\* Extend calls make
C12_FlattenPreorder ==
  [][ IsFlattenStep => Preorder(Store, rdCall'.m, rdCall'.out) ]_vars

\* flatten was called on the root of a tree with two nodes added, one of them
\* under the other
C12_Witness ==
  /\ rdCall.op = "flatten"
  /\ rdCall.m = root
  /\ Len(rdCall.out) = Cardinality(Canonical(InitTree)) + 2
  /\ \E i \in 1..Len(rdCall.out) :
       rdCall.out[i] > root /\ heap[rdCall.out[i]].parent > root

\* the children list of m when the match of r was made: Extend prepends, so
\* it is what is left of the list without the nodes made after the match
ChildrenAt(r, m) == SelectSeq(Children(Store, m), LAMBDA c : c <= r.at)

AcceptsFor(r, c) == Accepts(heap[c].detector, r.in, r.limit)

\* the children of m that the match of r had to evaluate: those up to the
\* first that accepts, that one included
Tried(r, m) ==
  LET cs == ChildrenAt(r, m)
  IN  {cs[k] : k \in {k \in 1..Len(cs) :
                        \A j \in 1..(k - 1) : ~AcceptsFor(r, cs[j])}}

\* C13: the node a match ends at is reached from the root by taking at each
\* node the first child, in list order, whose detector accepts; the detectors
\* called are those of the children up to that one at each node of the path,
\* each once, and no child of the terminal node accepts
C13_FirstMatchDescent ==
  \A i \in ResultIds :
    LET r == results[i]
    IN  /\ root \in PathOf(r)
        /\ \A n \in PathOf(r) \ {root} :
             LET cs == ChildrenAt(r, heap[n].parent)
             IN  \E k \in 1..Len(cs) :
                   /\ cs[k] = n
                   /\ AcceptsFor(r, n)
                   /\ \A j \in 1..(k - 1) : ~AcceptsFor(r, cs[j])
        /\ \A c \in Range(ChildrenAt(r, r.node)) : ~AcceptsFor(r, c)
        /\ Range(r.evaluated) = UNION {Tried(r, n) : n \in PathOf(r)}
        /\ Len(r.evaluated) = Cardinality(Range(r.evaluated))

\* a match went two levels down, and at one level a sibling after the child
\* it took accepts the input too and was not evaluated
C13_Witness ==
  \E i \in ResultIds :
    /\ Cardinality(PathOf(results[i])) >= 3
    /\ \E n \in PathOf(results[i]) \ {root} :
         \E s \in Range(ChildrenAt(results[i], heap[n].parent)) :
           /\ s # n
           /\ AcceptsFor(results[i], s)
           /\ s \notin Range(results[i].evaluated)

\* C14: Extend builds a new list and leaves every list there is as it is, so
\* a match that has loaded the children list of a node goes on seeing that
\* list, of the same length and elements, while it is at the node
C14_CopyOnWrite ==
  [][ /\ \A k \in 1..Len(lists) : lists'[k] = lists[k]
      /\ \A p \in Readers :
           ( /\ rd[p].pc = "scan" /\ rd'[p].pc = "scan"
             /\ rd'[p].cur = rd[p].cur
             /\ Whole(p) )
           => /\ rd'[p].hdr = rd[p].hdr
              /\ Observed(p)' = Observed(p) ]_vars

\* a match is going through the list it loaded at a node, a list assigned to
\* the node whole, after an Extend on that node has assigned another
C14_Witness ==
  \E p \in Readers, e \in Writers :
    /\ rd[p].pc = "scan"
    /\ Whole(p)
    /\ <<rd[p].cur, Observed(p)>> \in pub
    /\ wr[e].pc \in {"unlock", "done"}
    /\ wr[e].m = rd[p].cur
    /\ heap[rd[p].cur].children # rd[p].hdr
    /\ rd[p].hdr.len >= 1

\* the goroutines between mu.Lock() and mu.Unlock() of Extend
InCritical == {e \in Writers : wr[e].pc \in {"build", "write", "unlock"}}

\* the Extend calls on node m that have returned
DoneOn(m) == {e \in Writers : wr[e].pc = "done" /\ wr[e].m = m}

\* the children m had before any Extend
ChildrenBefore(m) ==
  IF m <= Len(InitTree.heap) THEN Children(InitTree, m) ELSE << >>

\* the children of m are the nodes of the Extend calls on m that returned,
\* each once, ahead of the children m had before
NoLostUpdate(m) ==
  LET cs == Children(Store, m)
      k  == Cardinality(DoneOn(m))
  IN  /\ Len(cs) = k + Len(ChildrenBefore(m))
      /\ SubSeq(cs, k + 1, Len(cs)) = ChildrenBefore(m)
      /\ \A e \in DoneOn(m) :
           Cardinality({j \in 1..k : cs[j] = wr[e].c}) = 1

\* C15: at most one Extend is between Lock and Unlock, and whenever no
\* Extend holds mu every node has, ahead of its previous children, the node
\* of each Extend on it that returned, exactly once
C15_ExtendSerialised ==
  /\ Cardinality(InCritical) <= 1
  /\ \A e \in InCritical : mu = e
  /\ mu = 0 => \A m \in 1..Len(heap) : NoLostUpdate(m)

\* two Extend calls on the same node overlapped and both returned: the one
\* that made its node first took the lock second, and the node has both
C15_Witness ==
  \E e1 \in Writers, e2 \in Writers :
    /\ wr[e1].pc = "done" /\ wr[e2].pc = "done"
    /\ wr[e1].m = wr[e2].m
    /\ wr[e1].c < wr[e2].c
    /\ Children(Store, wr[e1].m)
         = <<wr[e1].c, wr[e2].c>> \o ChildrenBefore(wr[e1].m)

\* the step is a call of match, of lookup or of flatten
IsReadStep == nreads' = nreads + 1 \/ Len(results') = Len(results) + 1

\* node n has in store T every field it has in store S: the fields of the
\* struct, the parameters, the children, and the array of the aliases whole,
\* with what lies after the last alias
SameNode(S, T, n) ==
  /\ T.heap[n] = S.heap[n]
  /\ ParamsOf(T, n) = ParamsOf(S, n)
  /\ Children(T, n) = Children(S, n)
  /\ S.heap[n].aliases.arr # 0 =>
       T.arrays[S.heap[n].aliases.arr] = S.arrays[S.heap[n].aliases.arr]

\* C16: a call of match, lookup or flatten leaves every field of every
\* canonical node as it was, the array of the aliases included
C16_ReadOnly ==
  [][ IsReadStep => \A n \in Canonical(Store) : SameNode(Store, StoreNext, n) ]_vars

\* the canonical path of result r as a chain: the terminal node, its
\* parent, and so on to the root
CanonicalChain(r) == chain(Store, r.node, Len(heap))

\* p has the parameters of own and those of new, new's value where both have
\* the key
IsOverlay(p, own, new) ==
  /\ DOMAIN p = (DOMAIN own) \cup (DOMAIN new)
  /\ \A k \in DOMAIN new : p[k] = new[k]
  /\ \A k \in (DOMAIN own) \ (DOMAIN new) : p[k] = own[k]

\* C17: the chain a match returns has one result for each node of the
\* canonical path from the terminal node to the root, with the node's type,
\* aliases and extension; the first has the terminal node's parameters
\* overlaid with the charset detected, the others have exactly the
\* parameters of their canonical nodes
C17_CloneMirrorsHierarchy ==
  \A i \in ResultIds :
    LET r == results[i]
        path == CanonicalChain(r)
    IN  /\ Len(r.seen) = Len(path)
        /\ heap[path[Len(path)]].parent = 0
        /\ \A k \in 1..Len(path) :
             /\ r.seen[k].typ = heap[path[k]].typ
             /\ r.seen[k].aliases = AliasesOf(Store, path[k])
             /\ r.seen[k].extension = heap[path[k]].extension
        /\ IsOverlay(r.seen[1].params, ParamsOf(Store, r.node),
                     DetectedOnly(heap[r.node].typ, r.in))
        /\ \A k \in 2..Len(path) : r.seen[k].params = ParamsOf(Store, path[k])

\* a match ended at a node with a charset of its own and detected another,
\* under an ancestor of a family type that did not get the charset
C17_Witness ==
  \E i \in ResultIds :
    LET r == results[i]
    IN  /\ Len(r.seen) >= 3
        /\ S_charset \in DOMAIN ParamsOf(Store, r.node)
        /\ DetectedOnly(heap[r.node].typ, r.in) # EmptyMap
        /\ r.seen[1].params[S_charset] # ParamsOf(Store, r.node)[S_charset]
        /\ r.seen[2].typ = TEXT
        /\ S_charset \notin DOMAIN r.seen[2].params
        /\ r.seen[1].aliases # << >>

\* the tree of store S: one canonical node, the root, has no parent, and
\* every node of a children list has the node of the list as its parent
TreeInv(S) ==
  /\ {n \in Canonical(S) : S.heap[n].parent = 0} = {root}
  /\ \A n \in Canonical(S) : \A c \in Range(Children(S, n)) : S.heap[c].parent = n

\* C18: the tree made at initialisation and by every sequence of Extend
\* calls has exactly one node without a parent, the root; the parent of
\* every child is the node that lists it; and no step changes the parent of
\* a node
C18_TreeInvariant ==
  [][ /\ TreeInv(Store)
      /\ TreeInv(StoreNext)
      /\ \A n \in Canonical(Store) : heap'[n].parent = heap[n].parent ]_vars

\* two Extend calls were made, the second on the node the first added, and
\* a match went through both nodes
C18_Witness ==
  /\ Cardinality(Canonical(Store)) = Cardinality(Canonical(InitTree)) + 2
  /\ \E c \in Canonical(Store) :
       /\ heap[c].parent > root
       /\ heap[heap[c].parent].parent # 0
       /\ \E i \in ResultIds : results[i].node = c

\* the positions in the preorder out of the nodes that have the name t
Hits(S, out, t) == {k \in 1..Len(out) : t \in Names(S, out[k])}

\* C19: lookup(typ) on m returns the first node in preorder of the subtree
\* of m whose type or one of whose aliases is typ, compared as given, and
\* nil exactly when no node of the subtree has that type or alias
C19_LookupFirstInPreorder ==
  [][ IsLookupStep =>
        LET out  == flatten(Store, rdCall'.m)
            hits == Hits(Store, out, rdCall'.typ)
        IN  IF hits = {} THEN rdCall'.ret = 0
            ELSE /\ rdCall'.ret # 0
                 /\ rdCall'.ret = out[CHOOSE k \in hits : \A j \in hits : k <= j] ]_vars

\* the lists of the initial tree come first in lists; the k-th list after
\* them is the one the k-th Extend to take mu built and stored
ListOf(k) == Len(InitTree.lists) + k

\* the header of the children of n after the first k stores: that of the
\* last of them on n, the list whose first node has n as parent
HeaderAt(k, n) ==
  LET js == {j \in 1..k : heap[lists[ListOf(j)][1]].parent = n}
      j  == CHOOSE x \in js : \A y \in js : y <= x
  IN  IF js # {} THEN [arr |-> ListOf(j), len |-> Len(lists[ListOf(j)])]
      ELSE IF n <= Len(InitTree.heap) THEN InitTree.heap[n].children
      ELSE NilSlice

\* the tree as it stood after the first k stores
StoreAt(k) ==
  [Store EXCEPT
     !.heap = [n \in 1..Len(heap) |-> [heap[n] EXCEPT !.children = HeaderAt(k, n)]]]

\* the node a match of (in, limit) run alone on that tree ends at
IsolatedAt(k, in, limit) == matchFrom(StoreAt(k), root, 1, in, limit, << >>).node

\* C20: a match that runs while Extend calls are made ends at the node at
\* which a match run alone would end on the tree as it stood at some one
\* instant between its start and its return
C20_MatchAtomic ==
  \A p \in Readers :
    rd[p].pc = "done" =>
      \E k \in rd[p].started..rd[p].returned :
        rd[p].cur = IsolatedAt(k, rd[p].in, rd[p].limit)

====
